---- MODULE Spec2Model ----
(***************************************************************************)
(* zipls: an ls-like view of the member list of a zip archive.             *)
(*                                                                         *)
(* The model follows src/zipls.py: get_zipinfo builds the node tree and    *)
(* the path index from the archive's entry list, glob_filter/glob_recurse  *)
(* expand wildcard path specifications with the regular expression that    *)
(* glob_to_re builds, ls_filter decides what one resolved path lists, and  *)
(* main collects and prints the results.                                   *)
(*                                                                         *)
(* Python strings are TLA+ strings; a character is a string of length 1.   *)
(***************************************************************************)
EXTENDS Integers, Sequences, FiniteSets, TLC

VARIABLES
    zipinfolist,     \* the archive's entries (file names), in archive order
    args,            \* the switches: hide_macosx, directory, all
    internal_path,   \* args.internal_path: the path specifications given
    pc,              \* where main is
    exc,             \* the exception that ended main, or "none"
    n_done,          \* get_zipinfo: the entries processed so far
    nodes,           \* the FileDirNode objects, by identity
    zipinfo_dict,    \* get_zipinfo's index: path -> identity of its node
    internal_paths,  \* main: args.internal_path or ['']
    glob_paths,      \* glob_filter's output_paths
    last_glob,       \* the last glob_recurse call of glob_filter: its number,
                     \* its path, what it found, and the places of
                     \* glob_paths that hold a path given back as it was
    n_filtered,      \* main: the resolved paths passed through ls_filter
    last_ls,         \* the last ls_filter call of main
    no_such_paths,   \* main's three result lists
    file_paths,
    dir_paths,
    output,          \* what main has printed
    status,          \* main's return value, or "none"
    glob_str,        \* a segment pattern given to glob_to_re
    candidate,       \* a segment given to the compiled pattern
    glob_result      \* what glob_to_re(glob_str).search(candidate) gave

vars == <<zipinfolist, args, internal_path, pc, exc, n_done, nodes,
          zipinfo_dict, internal_paths, glob_paths, last_glob, n_filtered,
          last_ls, no_such_paths, file_paths, dir_paths, output, status,
          glob_str, candidate, glob_result>>

(***************************************************************************)
(* Bounds of the model.                                                    *)
(***************************************************************************)
MaxEntries == 3
MaxPaths == 2
MaxGlobLen == 3
MaxNameLen == 2

(***************************************************************************)
(* Python's str operations.                                                *)
(***************************************************************************)
Ch(s, i) == SubSeq(s, i, i)

Contains(s, c) == \E i \in 1..Len(s) : Ch(s, i) = c

startswith(s, prefix) ==
    Len(s) >= Len(prefix) /\ SubSeq(s, 1, Len(prefix)) = prefix

RECURSIVE rstrip(_, _)
rstrip(s, c) ==
    IF Len(s) > 0 /\ Ch(s, Len(s)) = c
    THEN rstrip(SubSeq(s, 1, Len(s) - 1), c)
    ELSE s

\* s.split("/"): the segments between the separators, empty ones included.
RECURSIVE split(_)
split(s) ==
    IF ~Contains(s, "/") THEN <<s>>
    ELSE LET i == CHOOSE k \in 1..Len(s) :
                      Ch(s, k) = "/" /\ \A j \in 1..(k - 1) : Ch(s, j) # "/"
         IN <<SubSeq(s, 1, i - 1)>> \o split(SubSeq(s, i + 1, Len(s)))

\* s.rpartition("/"): <<before, separator, after>> around the last "/".
rpartition(s) ==
    IF ~Contains(s, "/") THEN <<"", "", s>>
    ELSE LET i == CHOOSE k \in 1..Len(s) :
                      Ch(s, k) = "/" /\ \A j \in (k + 1)..Len(s) : Ch(s, j) # "/"
         IN <<SubSeq(s, 1, i - 1), "/", SubSeq(s, i + 1, Len(s))>>

RECURSIVE join(_)
join(parts) ==
    IF Len(parts) = 0 THEN ""
    ELSE IF Len(parts) = 1 THEN parts[1]
    ELSE parts[1] \o "/" \o join(Tail(parts))

path_join(path_parts) == join(SelectSeq(path_parts, LAMBDA x : x # ""))

(***************************************************************************)
(* Python's re, for the expressions glob_to_re can build.                  *)
(***************************************************************************)
\* The characters re.escape puts a backslash before.
ReSpecial == {"(", ")", "[", "]", "{", "}", "?", "*", "+", "-", "|", "^",
              "$", "\\", ".", "&", "~", "#", " ", "\t", "\n", "\r", "\f"}

RECURSIVE re_escape(_)
re_escape(s) ==
    IF Len(s) = 0 THEN ""
    ELSE (IF Ch(s, 1) \in ReSpecial THEN "\\" \o Ch(s, 1) ELSE Ch(s, 1))
         \o re_escape(SubSeq(s, 2, Len(s)))

\* re.sub of the literal two characters `lit` (a backslash and the character
\* it escapes) by repl, leftmost first, not overlapping.
RECURSIVE re_sub(_, _, _)
re_sub(lit, repl, s) ==
    IF Len(s) = 0 THEN ""
    ELSE IF startswith(s, lit)
    THEN repl \o re_sub(lit, repl, SubSeq(s, Len(lit) + 1, Len(s)))
    ELSE Ch(s, 1) \o re_sub(lit, repl, SubSeq(s, 2, Len(s)))

\* re.search(r"\[.+\]", s): a "[", one or more characters other than a
\* newline, then a "]".
has_bracket_class(s) ==
    \E i \in 1..Len(s) : \E j \in (i + 2)..Len(s) :
        /\ Ch(s, i) = "["
        /\ Ch(s, j) = "]"
        /\ \A k \in (i + 1)..(j - 1) : Ch(s, k) # "\n"

\* The test of lines 318 and 395: the string holds a wildcard.
has_glob(s) == Contains(s, "*") \/ Contains(s, "?") \/ has_bracket_class(s)

\* A character set "[...]" of a regular expression, read from the character
\* after its "[" (and after a "^"): the members listed, and the position
\* after the closing "]", or 0 when the set is not closed.
RECURSIVE re_set(_, _, _, _)
re_set(p, j, members, first) ==
    IF j > Len(p) THEN [end |-> 0, members |-> members]
    ELSE IF Ch(p, j) = "]" /\ ~first THEN [end |-> j + 1, members |-> members]
    ELSE IF Ch(p, j) = "\\"
    THEN IF j + 1 > Len(p) THEN [end |-> 0, members |-> members]
         ELSE re_set(p, j + 2, members \cup {Ch(p, j + 1)}, FALSE)
    ELSE re_set(p, j + 1, members \cup {Ch(p, j)}, FALSE)

\* re.compile: the expression as a sequence of items, or an error
\* ("unterminated character set", "nothing to repeat", "multiple repeat").
RECURSIVE re_parse(_, _, _)
re_parse(p, i, items) ==
    IF i > Len(p) THEN [error |-> FALSE, items |-> items]
    ELSE LET c == Ch(p, i) IN
    IF c = "^" THEN re_parse(p, i + 1, Append(items, [kind |-> "bol"]))
    ELSE IF c = "$" THEN re_parse(p, i + 1, Append(items, [kind |-> "eol"]))
    ELSE IF c = "\\"
    THEN IF i + 1 > Len(p) THEN [error |-> TRUE, items |-> items]
         ELSE re_parse(p, i + 2,
                  Append(items, [kind |-> "set", negate |-> FALSE,
                                 members |-> {Ch(p, i + 1)}, star |-> FALSE]))
    ELSE IF c = "["
    THEN LET negate == i + 1 <= Len(p) /\ Ch(p, i + 1) = "^"
             set == re_set(p, IF negate THEN i + 2 ELSE i + 1, {}, TRUE)
         IN IF set.end = 0 THEN [error |-> TRUE, items |-> items]
            ELSE re_parse(p, set.end,
                     Append(items, [kind |-> "set", negate |-> negate,
                                    members |-> set.members, star |-> FALSE]))
    ELSE IF c = "*"
    THEN IF Len(items) = 0 \/ items[Len(items)].kind # "set"
            \/ items[Len(items)].star
         THEN [error |-> TRUE, items |-> items]
         ELSE re_parse(p, i + 1,
                  [items EXCEPT ![Len(items)].star = TRUE])
    ELSE re_parse(p, i + 1,
             Append(items, [kind |-> "set", negate |-> FALSE,
                            members |-> {c}, star |-> FALSE]))

re_compile(p) == re_parse(p, 1, <<>>)

re_accepts(item, c) ==
    IF item.negate THEN c \notin item.members ELSE c \in item.members

\* The items from the k-th on match s from position i on.
RECURSIVE re_match(_, _, _, _)
re_match(items, k, s, i) ==
    IF k > Len(items) THEN TRUE
    ELSE LET item == items[k] IN
    IF item.kind = "bol" THEN i = 1 /\ re_match(items, k + 1, s, i)
    ELSE IF item.kind = "eol"
    THEN /\ \/ i = Len(s) + 1
            \/ i = Len(s) /\ Ch(s, i) = "\n"
         /\ re_match(items, k + 1, s, i)
    ELSE IF item.star
    THEN \/ re_match(items, k + 1, s, i)
         \/ /\ i <= Len(s)
            /\ re_accepts(item, Ch(s, i))
            /\ re_match(items, k, s, i + 1)
    ELSE /\ i <= Len(s)
         /\ re_accepts(item, Ch(s, i))
         /\ re_match(items, k + 1, s, i + 1)

\* glob_re.search(x)
re_search(glob_re, x) ==
    \E start \in 1..(Len(x) + 1) : re_match(glob_re.items, 1, x, start)

(***************************************************************************)
(* glob_to_re                                                              *)
(***************************************************************************)
glob_to_re_pattern(s) ==
    LET glob_str_esc == "^" \o re_escape(s) \o "$"
    IN IF has_glob(s)
       THEN re_sub("\\]", "]",
                re_sub("\\[", "[",
                    re_sub("\\?", "[^/]",
                        re_sub("\\*", "[^/]*", glob_str_esc))))
       ELSE glob_str_esc

glob_to_re(s) == re_compile(glob_to_re_pattern(s))

(***************************************************************************)
(* FileDirNode and the two dictionaries.                                   *)
(*                                                                         *)
(* A node is an object: `nodes` holds the objects by identity, and the     *)
(* index and every children mapping hold identities, as the Python         *)
(* dictionaries hold references.  A ZipInfo object is the position of its  *)
(* entry in zipinfolist; NoZipinfo is None.  children_none says that the   *)
(* node's children attribute is None; otherwise `children` is the          *)
(* dictionary, its keys in insertion order.                                *)
(***************************************************************************)
NoZipinfo == 0

FileDirNode(zipinfo, children_none) ==
    [zipinfo |-> zipinfo, children_none |-> children_none, children |-> <<>>]

\* The position of key `name` in a children dictionary, 0 when absent.
child_pos(children, name) ==
    IF \E k \in 1..Len(children) : children[k].name = name
    THEN CHOOSE k \in 1..Len(children) : children[k].name = name
    ELSE 0

\* children[name] = node: a new key is added last, a key already there
\* keeps its place.
set_child(children, name, node) ==
    IF child_pos(children, name) = 0
    THEN Append(children, [name |-> name, node |-> node])
    ELSE [children EXCEPT ![child_pos(children, name)].node = node]

child_names(children) == {children[k].name : k \in 1..Len(children)}

\* zipinfo_dict[path] = node
set_item(dict, path, node) == (path :> node) @@ dict

\* The tree and its index while get_zipinfo runs; exc is the exception a
\* statement raised ("none" when it raised nothing).
Built(ns, dict, e) == [nodes |-> ns, zipinfo_dict |-> dict, exc |-> e]

\* Line 512: the root, a directory with no entry, indexed under "".
tree_root == Built(<<FileDirNode(NoZipinfo, FALSE)>>, ("" :> 1), "none")

(***************************************************************************)
(* create_node_and_ancestors                                               *)
(***************************************************************************)
\* Lines 489-490 for one component: a new directory node carrying `zipinfo`
\* is put into the parent's children and into the index.
create_node(me, my_parent, my_leaf, zipinfo, t) ==
    IF my_parent \notin DOMAIN t.zipinfo_dict
    THEN [t EXCEPT !.exc = "KeyError"]
    ELSE LET parent == t.zipinfo_dict[my_parent]
             new == Len(t.nodes) + 1
         IN IF t.nodes[parent].children_none
            THEN [t EXCEPT !.exc = "TypeError"]
            ELSE Built(
                   Append([t.nodes EXCEPT ![parent].children =
                               set_child(@, my_leaf, new)],
                          FileDirNode(zipinfo, FALSE)),
                   set_item(t.zipinfo_dict, me, new),
                   "none")

\* The loop of lines 480-490 from component i on (node_components[0] is
\* node_components[1] here).
RECURSIVE create_from(_, _, _, _)
create_from(node_components, i, zipinfo, t) ==
    IF i > Len(node_components) \/ t.exc # "none" THEN t
    ELSE LET me == path_join(SubSeq(node_components, 1, i))
             my_parent == path_join(SubSeq(node_components, 1, i - 1))
             my_leaf == node_components[i]
         IN create_from(node_components, i + 1, zipinfo,
                IF me \in DOMAIN t.zipinfo_dict THEN t
                ELSE create_node(me, my_parent, my_leaf, zipinfo, t))

create_node_and_ancestors(node_name, zipinfo, t) ==
    create_from(<<"">> \o split(node_name), 1, zipinfo, t)

(***************************************************************************)
(* get_zipinfo                                                             *)
(***************************************************************************)
\* zipinfo.is_dir(): the file name ends with "/".
is_dir(filename) == Len(filename) > 0 /\ Ch(filename, Len(filename)) = "/"

\* Lines 531-542: the leaf is put into node_parent's children.
insert_leaf(node_parent, leaf_name, zipinfo, dir, t) ==
    LET children == t.nodes[node_parent].children
        pos == child_pos(children, leaf_name)
        new == Len(t.nodes) + 1
    IN IF t.nodes[node_parent].children_none
       THEN [t EXCEPT !.exc = "TypeError"]
       ELSE IF dir
       THEN IF pos = 0
            THEN [t EXCEPT !.nodes =
                     Append([@ EXCEPT ![node_parent].children =
                                 set_child(@, leaf_name, new)],
                            FileDirNode(zipinfo, FALSE))]
            ELSE [t EXCEPT !.nodes[children[pos].node].zipinfo = zipinfo]
       ELSE [t EXCEPT !.nodes =
                Append([@ EXCEPT ![node_parent].children =
                            set_child(@, leaf_name, new)],
                       FileDirNode(zipinfo, TRUE))]

\* Lines 521-544: one entry that is not skipped.
add_entry(zipinfo, filename, t) ==
    LET this_filedir == rstrip(filename, "/")
        parent_name == rpartition(this_filedir)[1]
        leaf_name == rpartition(this_filedir)[3]
        t1 == IF parent_name \in DOMAIN t.zipinfo_dict THEN t
              ELSE create_node_and_ancestors(parent_name, zipinfo, t)
    IN IF t1.exc # "none" THEN t1
       ELSE IF parent_name \notin DOMAIN t1.zipinfo_dict
       THEN [t1 EXCEPT !.exc = "KeyError"]
       ELSE LET node_parent == t1.zipinfo_dict[parent_name]
                t2 == insert_leaf(node_parent, leaf_name, zipinfo,
                                  is_dir(filename), t1)
            IN IF t2.exc # "none" THEN t2
               ELSE [t2 EXCEPT !.zipinfo_dict =
                        set_item(@, this_filedir,
                            t2.nodes[node_parent].children[
                                child_pos(t2.nodes[node_parent].children,
                                          leaf_name)].node)]

\* A slip in line 518: the prefix is tested without its "/", and an entry
\* named "__MACOSX" is skipped too.
process_entry_skips_name(zipinfo, filename, hide_macosx, t) ==
    IF hide_macosx /\ startswith(filename, "__MACOSX") THEN t
    ELSE add_entry(zipinfo, filename, t)

\* Lines 514-544: one turn of the loop.
process_entry(zipinfo, filename, hide_macosx, t) ==
    IF hide_macosx /\ startswith(filename, "__MACOSX/") THEN t
    ELSE add_entry(zipinfo, filename, t)

\* get_zipinfo on the first n entries of a list.
RECURSIVE get_zipinfo(_, _, _)
get_zipinfo(list, n, hide_macosx) ==
    IF n = 0 THEN tree_root
    ELSE LET t == get_zipinfo(list, n - 1, hide_macosx)
         IN IF t.exc # "none" THEN t
            ELSE process_entry(n, list[n], hide_macosx, t)

(***************************************************************************)
(* ls_filter                                                               *)
(***************************************************************************)
\* A slip in lines 371-374: the test of line 372 is left out, and every
\* child is listed.
ls_children_unfiltered(t, pathspec, children, k, all, found) ==
    [raised |-> "none",
     path_matches |->
         [i \in 1..Len(children) |->
             <<children[i].name,
               t.nodes[t.zipinfo_dict[
                   path_join(<<pathspec, children[i].name>>)]].zipinfo>>]]

\* Lines 371-374 from the k-th child on; `found` is return_paths so far.
\* A pair is <<name, zipinfo>>.
RECURSIVE ls_children(_, _, _, _, _, _)
ls_children(t, pathspec, children, k, all, found) ==
    IF k > Len(children) THEN [raised |-> "none", path_matches |-> found]
    ELSE LET child == children[k].name
             child_path == path_join(<<pathspec, child>>)
         IN IF ~startswith(child, ".") \/ all
            THEN IF child_path \notin DOMAIN t.zipinfo_dict
                 THEN [raised |-> "KeyError", path_matches |-> <<>>]
                 ELSE ls_children(t, pathspec, children, k + 1, all,
                          Append(found,
                              <<child,
                                t.nodes[t.zipinfo_dict[child_path]].zipinfo>>))
            ELSE ls_children(t, pathspec, children, k + 1, all, found)

\* A slip in ls_filter: a directory without children is taken for a path
\* that does not exist.
ls_filter_empty_is_missing(t, pathspec, a) ==
    IF pathspec \notin DOMAIN t.zipinfo_dict
    THEN [raised |-> "NoSuchFileDirError", path_matches |-> <<>>]
    ELSE LET node == t.nodes[t.zipinfo_dict[pathspec]]
         IN IF ~node.children_none /\ ~a.directory
            THEN IF node.children = <<>>
                 THEN [raised |-> "NoSuchFileDirError", path_matches |-> <<>>]
                 ELSE ls_children(t, pathspec, node.children, 1, a.all, <<>>)
            ELSE [raised |-> "none",
                  path_matches |-> <<<<pathspec, node.zipinfo>>>>]

\* A slip in ls_filter: the -d switch is not looked at.
ls_filter_ignores_directory(t, pathspec, a) ==
    IF pathspec \notin DOMAIN t.zipinfo_dict
    THEN [raised |-> "NoSuchFileDirError", path_matches |-> <<>>]
    ELSE LET node == t.nodes[t.zipinfo_dict[pathspec]]
         IN IF ~node.children_none
            THEN ls_children(t, pathspec, node.children, 1, a.all, <<>>)
            ELSE [raised |-> "none",
                  path_matches |-> <<<<pathspec, node.zipinfo>>>>]

ls_filter(t, pathspec, a) ==
    IF pathspec \notin DOMAIN t.zipinfo_dict
    THEN [raised |-> "NoSuchFileDirError", path_matches |-> <<>>]
    ELSE LET node == t.nodes[t.zipinfo_dict[pathspec]]
         IN IF ~node.children_none /\ ~a.directory
            THEN ls_children(t, pathspec, node.children, 1, a.all, <<>>)
            ELSE [raised |-> "none",
                  path_matches |-> <<<<pathspec, node.zipinfo>>>>]

(***************************************************************************)
(* glob_recurse and glob_filter                                            *)
(***************************************************************************)
\* Lines 393-397: the number of leading segments that hold no wildcard.
first_glob(path_dirs) ==
    IF \E i \in 1..Len(path_dirs) : has_glob(path_dirs[i])
    THEN (CHOOSE i \in 1..Len(path_dirs) :
              /\ has_glob(path_dirs[i])
              /\ \A j \in 1..(i - 1) : ~has_glob(path_dirs[j])) - 1
    ELSE Len(path_dirs)

\* Lines 412-415: the keys of a children dictionary the expression finds,
\* in the dictionary's order.
mid_matches(children, glob_re) ==
    LET keys == [k \in 1..Len(children) |-> children[k].name]
    IN SelectSeq(keys, LAMBDA x : re_search(glob_re, x))

\* glob_recurse gives the paths it appends to output_paths, and the exception
\* that ended it.  `active` holds the paths of the calls that have not
\* returned: the tree does not change, so a call on a path that is active
\* repeats its caller for ever, and Python ends it with RecursionError.
RECURSIVE glob_recurse(_, _, _)
RECURSIVE glob_each(_, _, _, _, _, _, _)

\* A slip in line 407: the path as given is appended, not the joined one.
glob_recurse_appends_path(path, t, active) ==
    LET path_dirs == split(path)
        fg == first_glob(path_dirs)
        parent == path_join(SubSeq(path_dirs, 1, fg))
        tail == path_join(SubSeq(path_dirs, fg + 2, Len(path_dirs)))
    IN IF path \in active
       THEN [out |-> <<>>, exc |-> "RecursionError"]
       ELSE IF parent \notin DOMAIN t.zipinfo_dict
       THEN [out |-> <<>>, exc |-> "none"]
       ELSE IF fg >= Len(path_dirs)
       THEN [out |-> <<path>>, exc |-> "none"]
       ELSE IF t.nodes[t.zipinfo_dict[parent]].children_none
       THEN [out |-> <<>>, exc |-> "none"]
       ELSE LET glob_re == glob_to_re(path_dirs[fg + 1])
            IN IF glob_re.error
               THEN [out |-> <<>>, exc |-> "re.error"]
               ELSE glob_each(
                        mid_matches(t.nodes[t.zipinfo_dict[parent]].children,
                                    glob_re),
                        1, parent, tail, t, active \cup {path}, <<>>)

glob_recurse(path, t, active) ==
    LET path_dirs == split(path)
        fg == first_glob(path_dirs)
        parent == path_join(SubSeq(path_dirs, 1, fg))
        tail == path_join(SubSeq(path_dirs, fg + 2, Len(path_dirs)))
    IN IF path \in active
       THEN [out |-> <<>>, exc |-> "RecursionError"]
       ELSE IF parent \notin DOMAIN t.zipinfo_dict
       THEN [out |-> <<>>, exc |-> "none"]
       ELSE IF fg >= Len(path_dirs)
       THEN [out |-> <<parent>>, exc |-> "none"]
       ELSE IF t.nodes[t.zipinfo_dict[parent]].children_none
       THEN [out |-> <<>>, exc |-> "none"]
       ELSE LET glob_re == glob_to_re(path_dirs[fg + 1])
            IN IF glob_re.error
               THEN [out |-> <<>>, exc |-> "re.error"]
               ELSE glob_each(
                        mid_matches(t.nodes[t.zipinfo_dict[parent]].children,
                                    glob_re),
                        1, parent, tail, t, active \cup {path}, <<>>)

\* A slip in lines 416-418: a branch that finds nothing empties the list of
\* the matches found so far.
glob_each_forgets_on_miss(matches, k, parent, tail, t, active, out) ==
    IF k > Len(matches) THEN [out |-> out, exc |-> "none"]
    ELSE LET recurse_dir == path_join(<<parent, matches[k], tail>>)
             r == glob_recurse(recurse_dir, t, active)
         IN IF r.exc # "none" THEN [out |-> out \o r.out, exc |-> r.exc]
            ELSE glob_each(matches, k + 1, parent, tail, t, active,
                           IF r.out = <<>> THEN <<>> ELSE out \o r.out)

\* Lines 416-418 from the k-th match on.
glob_each(matches, k, parent, tail, t, active, out) ==
    IF k > Len(matches) THEN [out |-> out, exc |-> "none"]
    ELSE LET recurse_dir == path_join(<<parent, matches[k], tail>>)
             r == glob_recurse(recurse_dir, t, active)
         IN IF r.exc # "none" THEN [out |-> out \o r.out, exc |-> r.exc]
            ELSE glob_each(matches, k + 1, parent, tail, t, active,
                           out \o r.out)

\* Lines 443-452: one path specification of glob_filter's loop.
glob_filter(pathspec0, t) ==
    LET pathspec == rstrip(pathspec0, "/")
        r == glob_recurse(pathspec, t, {})
    IN [pathspec |-> pathspec,
        glob_paths |-> r.out,
        exc |-> r.exc,
        output_paths |-> IF r.out # <<>> THEN r.out ELSE <<pathspec>>]

(***************************************************************************)
(* sorted                                                                  *)
(***************************************************************************)
\* The printable characters from " " (32) to "_" (95) and from "a" (97) to
\* "~" (126), in the order of their code points.
AsciiLow == " !\"#$%&'()*+,-./0123456789:;<=>?@ABCDEFGHIJKLMNOPQRSTUVWXYZ[\\]^_"
AsciiHigh == "abcdefghijklmnopqrstuvwxyz{|}~"

\* ord(c) of one of these characters or of a newline.
ord(c) ==
    IF c = "\n" THEN 10
    ELSE IF Contains(AsciiLow, c)
    THEN 31 + (CHOOSE i \in 1..Len(AsciiLow) : Ch(AsciiLow, i) = c)
    ELSE 96 + (CHOOSE i \in 1..Len(AsciiHigh) : Ch(AsciiHigh, i) = c)

\* a < b for Python strings.
RECURSIVE str_lt(_, _)
str_lt(a, b) ==
    IF Len(b) = 0 THEN FALSE
    ELSE IF Len(a) = 0 THEN TRUE
    ELSE IF Ch(a, 1) # Ch(b, 1) THEN ord(Ch(a, 1)) < ord(Ch(b, 1))
    ELSE str_lt(SubSeq(a, 2, Len(a)), SubSeq(b, 2, Len(b)))

\* x is put into a list sorted by its first component, after the elements
\* that do not come after it (sorted is stable).
RECURSIVE insert_sorted(_, _)
insert_sorted(list, x) ==
    IF Len(list) = 0 THEN <<x>>
    ELSE IF str_lt(x[1], list[Len(list)][1])
    THEN Append(insert_sorted(SubSeq(list, 1, Len(list) - 1), x),
                list[Len(list)])
    ELSE Append(list, x)

\* sorted(list) and sorted(list, key=lambda x: x[0]) of a list of pairs.
RECURSIVE sorted(_)
sorted(list) ==
    IF Len(list) = 0 THEN <<>>
    ELSE insert_sorted(sorted(SubSeq(list, 1, Len(list) - 1)),
                       list[Len(list)])

\* sorted(list) of <<name, zipinfo>> pairs compares two ZipInfo objects when
\* two names are equal and the objects are not the same: TypeError.
sorted_raises(list) ==
    \E i, j \in 1..Len(list) : list[i][1] = list[j][1] /\ list[i][2] # list[j][2]

(***************************************************************************)
(* main                                                                    *)
(***************************************************************************)
Tree == Built(nodes, zipinfo_dict, "none")

\* format_print_ls(sorted(path_list), args): the group as it is printed.
\* color_classify asks every ZipInfo of the list whether it is a directory,
\* and the root's is None: AttributeError, before the group is printed.
format_print_ls(path_list) ==
    IF sorted_raises(path_list) THEN [out |-> <<>>, exc |-> "TypeError"]
    ELSE IF \E k \in 1..Len(path_list) : path_list[k][2] = NoZipinfo
    THEN [out |-> <<>>, exc |-> "AttributeError"]
    ELSE [out |-> <<[kind |-> "ls", list |-> sorted(path_list)]>>,
          exc |-> "none"]

\* Lines 593-599 from the k-th directory on.
RECURSIVE print_dirs(_, _, _, _)
print_dirs(dirs, k, previous_printing, n_dirs) ==
    IF k > Len(dirs) THEN [out |-> <<>>, exc |-> "none"]
    ELSE LET head == (IF previous_printing THEN <<[kind |-> "blank"]>>
                      ELSE <<>>)
                     \o (IF previous_printing \/ n_dirs > 1
                         THEN <<[kind |-> "label", path |-> dirs[k][1]]>>
                         ELSE <<>>)
             group == format_print_ls(dirs[k][2])
             rest == print_dirs(dirs, k + 1, TRUE, n_dirs)
         IN IF group.exc # "none"
            THEN [out |-> head, exc |-> group.exc]
            ELSE [out |-> head \o group.out \o rest.out, exc |-> rest.exc]

\* A slip in line 593: the directories are printed in the order they were
\* resolved in, not sorted.
print_results_unsorted_dirs(no_such, files, dirs) ==
    LET reports == [k \in 1..Len(no_such) |->
                       [kind |-> "no such", path |-> no_such[k]]]
        group == IF files # <<>> THEN format_print_ls(files)
                 ELSE [out |-> <<>>, exc |-> "none"]
        rest == print_dirs(dirs, 1, no_such # <<>> \/ files # <<>>,
                           Len(dirs))
    IN IF group.exc # "none"
       THEN [out |-> reports, exc |-> group.exc]
       ELSE [out |-> reports \o group.out \o rest.out, exc |-> rest.exc]

\* Lines 586-599: what main prints, in order, and the exception that ended
\* the printing.
print_results(no_such, files, dirs) ==
    LET reports == [k \in 1..Len(no_such) |->
                       [kind |-> "no such", path |-> no_such[k]]]
        group == IF files # <<>> THEN format_print_ls(files)
                 ELSE [out |-> <<>>, exc |-> "none"]
        rest == print_dirs(sorted(dirs), 1, no_such # <<>> \/ files # <<>>,
                           Len(dirs))
    IN IF group.exc # "none"
       THEN [out |-> reports, exc |-> group.exc]
       ELSE [out |-> reports \o group.out \o rest.out, exc |-> rest.exc]

\* get_zipinfo, lines 514-544: the next entry of the archive.
BuildStep ==
    /\ pc = "get_zipinfo"
    /\ n_done < Len(zipinfolist)
    /\ LET t == process_entry(n_done + 1, zipinfolist[n_done + 1],
                              args.hide_macosx, Tree)
       IN /\ nodes' = t.nodes
          /\ zipinfo_dict' = t.zipinfo_dict
          /\ exc' = t.exc
          /\ pc' = IF t.exc = "none" THEN "get_zipinfo" ELSE "crashed"
    /\ n_done' = n_done + 1
    /\ UNCHANGED <<zipinfolist, args, internal_path, internal_paths,
                   glob_paths, last_glob, n_filtered, last_ls, no_such_paths,
                   file_paths, dir_paths, output, status, glob_str, candidate,
                   glob_result>>

\* Lines 546 and 563: get_zipinfo returns, and main takes the path
\* specifications, the root when none is given.
BuildReturn ==
    /\ pc = "get_zipinfo"
    /\ n_done = Len(zipinfolist)
    /\ pc' = "glob_filter"
    /\ internal_paths' = IF internal_path # <<>> THEN internal_path ELSE <<"">>
    /\ UNCHANGED <<zipinfolist, args, internal_path, exc, n_done, nodes,
                   zipinfo_dict, glob_paths, last_glob, n_filtered, last_ls,
                   no_such_paths, file_paths, dir_paths, output, status,
                   glob_str, candidate, glob_result>>

\* glob_filter, lines 442-452: the next path specification.
GlobFilterStep ==
    /\ pc = "glob_filter"
    /\ last_glob.n < Len(internal_paths)
    /\ LET g == glob_filter(internal_paths[last_glob.n + 1], Tree)
       IN /\ last_glob' = [n |-> last_glob.n + 1, pathspec |-> g.pathspec,
                           glob_paths |-> g.glob_paths, exc |-> g.exc,
                           literals |->
                               IF g.exc = "none" /\ g.glob_paths = <<>>
                               THEN last_glob.literals
                                        \cup {Len(glob_paths) + 1}
                               ELSE last_glob.literals]
          /\ exc' = g.exc
          /\ IF g.exc = "none"
             THEN /\ glob_paths' = glob_paths \o g.output_paths
                  /\ pc' = "glob_filter"
             ELSE /\ glob_paths' = glob_paths
                  /\ pc' = "crashed"
    /\ UNCHANGED <<zipinfolist, args, internal_path, n_done, nodes,
                   zipinfo_dict, internal_paths, n_filtered, last_ls,
                   no_such_paths, file_paths, dir_paths, output, status,
                   glob_str, candidate, glob_result>>

\* Line 454: glob_filter returns.
GlobFilterReturn ==
    /\ pc = "glob_filter"
    /\ last_glob.n = Len(internal_paths)
    /\ pc' = "ls_filter"
    /\ UNCHANGED <<zipinfolist, args, internal_path, exc, n_done, nodes,
                   zipinfo_dict, internal_paths, glob_paths, last_glob,
                   n_filtered, last_ls, no_such_paths, file_paths, dir_paths,
                   output, status, glob_str, candidate, glob_result>>

\* A slip in lines 362-365: the index is a mapping that creates what is
\* looked up and missing (a defaultdict), so the lookup of a path that is
\* not there leaves a node at it.
LsFilterStep_inserts_missing ==
    /\ pc = "ls_filter"
    /\ n_filtered < Len(glob_paths)
    /\ LET pathspec == glob_paths[n_filtered + 1]
           r == ls_filter(Tree, pathspec, args)
           path_matches == r.path_matches
       IN /\ last_ls' = [called |-> TRUE, pathspec |-> pathspec,
                         raised |-> r.raised, path_matches |-> path_matches]
          /\ IF r.raised = "NoSuchFileDirError"
             THEN /\ no_such_paths' = Append(no_such_paths, pathspec)
                  /\ UNCHANGED <<file_paths, dir_paths, exc, pc>>
             ELSE IF r.raised # "none"
             THEN /\ exc' = r.raised
                  /\ pc' = "crashed"
                  /\ UNCHANGED <<no_such_paths, file_paths, dir_paths>>
             ELSE IF Len(path_matches) = 1 /\ path_matches[1][1] = pathspec
             THEN /\ file_paths' = file_paths \o path_matches
                  /\ UNCHANGED <<no_such_paths, dir_paths, exc, pc>>
             ELSE /\ dir_paths' = Append(dir_paths, <<pathspec, path_matches>>)
                  /\ UNCHANGED <<no_such_paths, file_paths, exc, pc>>
    /\ n_filtered' = n_filtered + 1
    /\ zipinfo_dict' = IF glob_paths[n_filtered + 1] \in DOMAIN zipinfo_dict
                       THEN zipinfo_dict
                       ELSE set_item(zipinfo_dict, glob_paths[n_filtered + 1],
                                     Len(nodes) + 1)
    /\ nodes' = IF glob_paths[n_filtered + 1] \in DOMAIN zipinfo_dict
                THEN nodes
                ELSE Append(nodes, FileDirNode(NoZipinfo, TRUE))
    /\ UNCHANGED <<zipinfolist, args, internal_path, n_done, internal_paths,
                   glob_paths, last_glob, output, status, glob_str, candidate,
                   glob_result>>

\* Lines 572-583: the next resolved path goes through ls_filter and into one
\* of the three lists.
LsFilterStep ==
    /\ pc = "ls_filter"
    /\ n_filtered < Len(glob_paths)
    /\ LET pathspec == glob_paths[n_filtered + 1]
           r == ls_filter(Tree, pathspec, args)
           path_matches == r.path_matches
       IN /\ last_ls' = [called |-> TRUE, pathspec |-> pathspec,
                         raised |-> r.raised, path_matches |-> path_matches]
          /\ IF r.raised = "NoSuchFileDirError"
             THEN /\ no_such_paths' = Append(no_such_paths, pathspec)
                  /\ UNCHANGED <<file_paths, dir_paths, exc, pc>>
             ELSE IF r.raised # "none"
             THEN /\ exc' = r.raised
                  /\ pc' = "crashed"
                  /\ UNCHANGED <<no_such_paths, file_paths, dir_paths>>
             ELSE IF Len(path_matches) = 1 /\ path_matches[1][1] = pathspec
             THEN /\ file_paths' = file_paths \o path_matches
                  /\ UNCHANGED <<no_such_paths, dir_paths, exc, pc>>
             ELSE /\ dir_paths' = Append(dir_paths, <<pathspec, path_matches>>)
                  /\ UNCHANGED <<no_such_paths, file_paths, exc, pc>>
    /\ n_filtered' = n_filtered + 1
    /\ UNCHANGED <<zipinfolist, args, internal_path, n_done, nodes,
                   zipinfo_dict, internal_paths, glob_paths, last_glob,
                   output, status, glob_str, candidate, glob_result>>

\* Lines 585-601: the results are printed and main returns 0.
PrintResults ==
    /\ pc = "ls_filter"
    /\ n_filtered = Len(glob_paths)
    /\ LET printed == print_results(no_such_paths, file_paths, dir_paths)
       IN /\ output' = printed.out
          /\ exc' = printed.exc
          /\ pc' = IF printed.exc = "none" THEN "done" ELSE "crashed"
          /\ status' = IF printed.exc = "none" THEN <<0>> ELSE status
    /\ UNCHANGED <<zipinfolist, args, internal_path, n_done, nodes,
                   zipinfo_dict, internal_paths, glob_paths, last_glob,
                   n_filtered, last_ls, no_such_paths, file_paths, dir_paths,
                   glob_str, candidate, glob_result>>

\* glob_re.search(x) of line 414 for one pattern and one segment.
GlobMatch ==
    /\ pc = "glob_to_re"
    /\ pc' = "searched"
    /\ glob_result' = IF glob_to_re(glob_str).error THEN "re.error"
                      ELSE IF re_search(glob_to_re(glob_str), candidate)
                      THEN "match" ELSE "no match"
    /\ UNCHANGED <<zipinfolist, args, internal_path, exc, n_done, nodes,
                   zipinfo_dict, internal_paths, glob_paths, last_glob,
                   n_filtered, last_ls, no_such_paths, file_paths, dir_paths,
                   output, status, glob_str, candidate>>

(***************************************************************************)
(* The inputs.                                                             *)
(***************************************************************************)
\* The sequences of at most n elements of S.
RECURSIVE SeqsUpTo(_, _)
SeqsUpTo(S, n) ==
    IF n = 0 THEN {<<>>}
    ELSE LET shorter == SeqsUpTo(S, n - 1)
         IN shorter \cup {Append(q, x) : q \in shorter, x \in S}

\* The strings of at most n characters of `chars`.
RECURSIVE StrsUpTo(_, _)
StrsUpTo(chars, n) ==
    IF n = 0 THEN {""}
    ELSE LET shorter == StrsUpTo(chars, n - 1)
         IN shorter \cup {s \o c : s \in shorter, c \in chars}

\* The entry names archives are made of when the tree builder is checked:
\* files and directories, nested, colliding, and under "__MACOSX".
EntryNames == {"a/", "a", "a/b", "a/b/", "a/b/c.txt", ".h", "__MACOSX/a",
               "__MACOSX"}

\* The archives main is run on, each with the path specifications it is
\* given there: ones that name a node, ones that name none, and wildcards
\* that match some children, all of them or none.
Fixtures == {
    [zipinfolist |-> <<"docs/", "docs/readme.txt", "docs/img/">>,
     pathspecs |-> {"docs", "nope", "nope/", "docs/img", "docs/readme.txt",
                    "d*/nope"}],
    [zipinfolist |-> <<"a/b/c.txt">>,
     pathspecs |-> {"a/b", "a//b", "/a", "a/b/", "a/*/c.txt",
                    "a/b/c.txt/*"}],
    [zipinfolist |-> <<"a.txt", ".hidden", "b/">>,
     pathspecs |-> {"*", ".hidden", "a.txt/*", "?", ".*", "b"}],
    [zipinfolist |-> <<"docs/", "dogs/", "other">>,
     pathspecs |-> {"do*s", "*", "d?gs", "x*", "other", "do[cg]s"}],
    [zipinfolist |-> <<"[a]", "a", "[b]">>,
     pathspecs |-> {"*", "[a]", "[b]", "*[", "a", "nope"}],
    [zipinfolist |-> <<"a*", "ab">>,
     pathspecs |-> {"*", "a*", "ab", "a?"}],
    [zipinfolist |-> <<"a/", "a/b", "a">>,
     pathspecs |-> {"a", "a/b", "a/*", "*"}],
    [zipinfolist |-> <<"a", "a/b">>,
     pathspecs |-> {"a"}],
    [zipinfolist |-> <<"a/a">>,
     pathspecs |-> {"a", "a/a", "*"}],
    [zipinfolist |-> <<"__MACOSX/a", "a">>,
     pathspecs |-> {"*", "__MACOSX", "a"}],
    [zipinfolist |-> <<"docs/readme.txt", "dogs/", "other">>,
     pathspecs |-> {"*/readme.txt", "*/*", "other/*", "nope/*"}] }

GlobChars == {"a", ".", "*", "?", "[", "]"}
NameChars == {"a", "b", ".", "*", "]", "\n"}

Switches == [hide_macosx : BOOLEAN, directory : BOOLEAN, all : BOOLEAN]

InitMain ==
    /\ pc = "get_zipinfo"
    /\ exc = "none"
    /\ n_done = 0
    /\ nodes = tree_root.nodes
    /\ zipinfo_dict = tree_root.zipinfo_dict
    /\ internal_paths = <<>>
    /\ glob_paths = <<>>
    /\ last_glob = [n |-> 0, pathspec |-> "", glob_paths |-> <<>>,
                    exc |-> "none", literals |-> {}]
    /\ n_filtered = 0
    /\ last_ls = [called |-> FALSE, pathspec |-> "", raised |-> "none",
                  path_matches |-> <<>>]
    /\ no_such_paths = <<>>
    /\ file_paths = <<>>
    /\ dir_paths = <<>>
    /\ output = <<>>
    /\ status = <<>>
    /\ glob_str = ""
    /\ candidate = ""
    /\ glob_result = "none"

\* main on one of the archives, with any switches and path specifications.
Init ==
    /\ \E f \in Fixtures :
          /\ zipinfolist = f.zipinfolist
          /\ internal_path \in SeqsUpTo(f.pathspecs, MaxPaths)
    /\ args \in Switches
    /\ InitMain

Next ==
    \/ BuildStep
    \/ BuildReturn
    \/ GlobFilterStep
    \/ GlobFilterReturn
    \/ LsFilterStep
    \/ PrintResults

Spec == Init /\ [][Next]_vars

\* get_zipinfo on any archive of at most MaxEntries entries.
InitBuild ==
    /\ zipinfolist \in SeqsUpTo(EntryNames, MaxEntries)
    /\ args \in [hide_macosx : BOOLEAN, directory : {FALSE}, all : {FALSE}]
    /\ internal_path = <<>>
    /\ InitMain

NextBuild ==
    \/ BuildStep
    \/ BuildReturn

SpecBuild == InitBuild /\ [][NextBuild]_vars

\* glob_to_re on any pattern and any segment.
InitGlob ==
    /\ zipinfolist = <<>>
    /\ args = [hide_macosx |-> FALSE, directory |-> FALSE, all |-> FALSE]
    /\ internal_path = <<>>
    /\ InitMain!2
    /\ InitMain!3
    /\ InitMain!4
    /\ InitMain!5
    /\ InitMain!6
    /\ InitMain!7
    /\ InitMain!8
    /\ InitMain!9
    /\ InitMain!10
    /\ InitMain!11
    /\ InitMain!12
    /\ InitMain!13
    /\ InitMain!14
    /\ InitMain!15
    /\ pc = "glob_to_re"
    /\ glob_str \in StrsUpTo(GlobChars, MaxGlobLen)
    /\ candidate \in StrsUpTo(NameChars, MaxNameLen)
    /\ glob_result = "none"

NextGlob == GlobMatch

SpecGlob == InitGlob /\ [][NextGlob]_vars

(***************************************************************************)
(* The claims.                                                             *)
(***************************************************************************)
\* The node the index holds for a path.
NodeAt(path) == nodes[zipinfo_dict[path]]

\* The last ls_filter call of main was on a path of the index.
LsOnNode == last_ls.called /\ last_ls.pathspec \in DOMAIN zipinfo_dict

\* The children of a node that ls_filter shows under the -a switch as set.
Visible(node) ==
    SelectSeq(node.children, LAMBDA c : ~startswith(c.name, ".") \/ args.all)

\* C1: ls_filter raises NoSuchFileDirError exactly when the path is not a
\* key of the tree; on a directory without children, the -d switch off, it
\* returns the empty list and raises nothing.
C1_NotFoundIffAbsent ==
    last_ls.called =>
        /\ (last_ls.raised = "NoSuchFileDirError")
               <=> (last_ls.pathspec \notin DOMAIN zipinfo_dict)
        /\ ( /\ last_ls.pathspec \in DOMAIN zipinfo_dict
             /\ ~NodeAt(last_ls.pathspec).children_none
             /\ NodeAt(last_ls.pathspec).children = <<>>
             /\ ~args.directory )
           => (last_ls.raised = "none" /\ last_ls.path_matches = <<>>)

\* main has listed the empty directory docs/img and reported "nope".
C1_Witness ==
    /\ pc = "done"
    /\ internal_paths = <<"docs/img", "nope">>
    /\ ~args.directory
    /\ ~NodeAt("docs/img").children_none
    /\ dir_paths = << <<"docs/img", <<>> >> >>
    /\ no_such_paths = <<"nope">>

\* C4: on a directory, the -d switch off, ls_filter returns one pair
\* <<leaf name, entry of the child node>> for each child that does not start
\* with "." or is asked for with -a, in the order of the children mapping,
\* and nothing else.
C4_DirectoryListsChildren ==
    (LsOnNode /\ ~NodeAt(last_ls.pathspec).children_none /\ ~args.directory)
    => LET shown == Visible(NodeAt(last_ls.pathspec))
           names == {last_ls.path_matches[k][1] :
                        k \in 1..Len(last_ls.path_matches)}
       IN /\ last_ls.raised = "none"
          /\ Len(last_ls.path_matches) = Len(shown)
          /\ \A k \in 1..Len(shown) :
                last_ls.path_matches[k]
                    = <<shown[k].name, nodes[shown[k].node].zipinfo>>
          /\ Cardinality(names) = Len(last_ls.path_matches)
          /\ ~args.all => \A name \in names : ~startswith(name, ".")
          /\ args.all
                => names = child_names(NodeAt(last_ls.pathspec).children)

\* ls_filter("docs") on the entries docs/, docs/readme.txt, docs/img/.
C4_Witness ==
    /\ zipinfolist = <<"docs/", "docs/readme.txt", "docs/img/">>
    /\ last_ls.called
    /\ last_ls.pathspec = "docs"
    /\ ~args.directory
    /\ last_ls.path_matches = << <<"readme.txt", 2>>, <<"img", 3>> >>

\* C5: on a file, and on a directory under the -d switch, ls_filter returns
\* the one pair <<path, entry stored at the path>>, whatever the -a switch
\* and the first character of the name.
C5_SingleEntry ==
    (LsOnNode /\ (NodeAt(last_ls.pathspec).children_none \/ args.directory))
    => /\ last_ls.raised = "none"
       /\ last_ls.path_matches
              = << <<last_ls.pathspec, NodeAt(last_ls.pathspec).zipinfo>> >>

\* ls_filter(".hidden") without -a, and ls_filter("b") on the directory b
\* with -d, both in one run.
C5_Witness ==
    /\ pc = "done"
    /\ internal_paths = <<".hidden", "b">>
    /\ ~args.all
    /\ args.directory
    /\ ~NodeAt("b").children_none
    /\ file_paths = << <<".hidden", 2>>, <<"b", 3>> >>

\* The last glob_recurse call of glob_filter returned, and no segment of its
\* path holds a wildcard.
GlobOnLiteral ==
    /\ last_glob.n > 0
    /\ last_glob.exc = "none"
    /\ \A i \in 1..Len(split(last_glob.pathspec)) :
          ~has_glob(split(last_glob.pathspec)[i])

\* C7, as claimed: without a wildcard, glob_recurse outputs the path itself
\* when it is a key of the tree and nothing when it is not, empty segments
\* included.
C7_Original ==
    GlobOnLiteral =>
        last_glob.glob_paths
            = IF last_glob.pathspec \in DOMAIN zipinfo_dict
              THEN <<last_glob.pathspec>> ELSE <<>>

\* C7, amended: without a wildcard, glob_recurse outputs the path with its
\* empty segments dropped when that is a key of the tree, and nothing when
\* it is not; a path without empty segments is looked up as it is.
C7_LiteralIsLookup ==
    GlobOnLiteral =>
        LET segments == split(last_glob.pathspec)
            kept == SelectSeq(segments, LAMBDA x : x # "")
            joined == join(kept)
        IN /\ last_glob.glob_paths
                  = IF joined \in DOMAIN zipinfo_dict
                    THEN <<joined>> ELSE <<>>
           /\ kept = segments => joined = last_glob.pathspec

\* glob_recurse("a//b") on the entry a/b/c.txt gave "a/b".
C7_Witness ==
    /\ zipinfolist = <<"a/b/c.txt">>
    /\ last_glob.n > 0
    /\ last_glob.pathspec = "a//b"
    /\ last_glob.glob_paths = <<"a/b">>
    /\ "a//b" \notin DOMAIN zipinfo_dict

\* C2, as claimed: when the parent path of the entry get_zipinfo takes next
\* has no node, the step leaves the parent and every ancestor of it in the
\* index as a directory node that its own parent's children mapping holds
\* under its leaf name, and of two ancestors it had to create the shallower
\* one was created first.
C2_Original ==
    [][LET filename == zipinfolist[n_done + 1]
           parent_name == rpartition(rstrip(filename, "/"))[1]
           components == split(parent_name)
           ancestor(i) == path_join(SubSeq(components, 1, i))
       IN ( /\ pc = "get_zipinfo"
            /\ n_done < Len(zipinfolist)
            /\ ~(args.hide_macosx /\ startswith(filename, "__MACOSX/"))
            /\ parent_name \notin DOMAIN zipinfo_dict )
          => \A i \in 1..Len(components) :
                /\ ancestor(i) \in DOMAIN zipinfo_dict'
                /\ ~nodes'[zipinfo_dict'[ancestor(i)]].children_none
                /\ ancestor(i - 1) \in DOMAIN zipinfo_dict'
                /\ \E k \in 1..Len(nodes'[zipinfo_dict'[ancestor(i - 1)]]
                                       .children) :
                      nodes'[zipinfo_dict'[ancestor(i - 1)]].children[k]
                          = [name |-> components[i],
                             node |-> zipinfo_dict'[ancestor(i)]]
                /\ \A j \in 1..(i - 1) :
                      ancestor(j) \notin DOMAIN zipinfo_dict
                      => zipinfo_dict'[ancestor(j)]
                             < zipinfo_dict'[ancestor(i)]
      ]_vars

\* C3, as claimed: no step of get_zipinfo changes the kind of a node that
\* the index already holds: a path that is a directory stays a directory
\* and a path that is a file stays a file.
C3_Original ==
    [][\A path \in DOMAIN zipinfo_dict :
          /\ path \in DOMAIN zipinfo_dict'
          /\ nodes'[zipinfo_dict'[path]].children_none
                 = nodes[zipinfo_dict[path]].children_none
      ]_vars

\* C6, as claimed: for a path whose only wildcard segment is the last one
\* and whose anchor A is a directory of the tree, glob_recurse outputs the
\* paths A/k of the children k that the expression of the segment finds,
\* each once, and nothing else.
C6_Original ==
    LET path_dirs == split(last_glob.pathspec)
        fg == first_glob(path_dirs)
        anchor == path_join(SubSeq(path_dirs, 1, fg))
        glob_re == glob_to_re(path_dirs[Len(path_dirs)])
        out == last_glob.glob_paths
    IN ( /\ last_glob.n > 0
         /\ fg = Len(path_dirs) - 1
         /\ anchor \in DOMAIN zipinfo_dict
         /\ ~NodeAt(anchor).children_none
         /\ ~glob_re.error )
       => /\ last_glob.exc = "none"
          /\ \A i, j \in 1..Len(out) : out[i] = out[j] => i = j
          /\ {out[i] : i \in 1..Len(out)}
                 = {path_join(<<anchor, k>>) :
                      k \in {x \in child_names(NodeAt(anchor).children) :
                                re_search(glob_re, x)}}

\* C8, as claimed: a path specification that glob_recurse expands to nothing
\* is put into glob_filter's output once, as it is without its trailing
\* slashes, and ls_filter on that literal raises NoSuchFileDirError; a
\* specification with matches puts only its matches there.
C8_Original ==
    /\ (last_glob.n > 0 /\ last_glob.exc = "none")
       => LET emitted == IF last_glob.glob_paths = <<>>
                         THEN <<last_glob.pathspec>>
                         ELSE last_glob.glob_paths
          IN /\ Len(glob_paths) >= Len(emitted)
             /\ SubSeq(glob_paths, Len(glob_paths) - Len(emitted) + 1,
                       Len(glob_paths)) = emitted
             /\ last_glob.pathspec
                    = rstrip(internal_paths[last_glob.n], "/")
    /\ (last_ls.called /\ n_filtered \in last_glob.literals)
       => /\ last_ls.raised = "NoSuchFileDirError"
          /\ no_such_paths # <<>>
          /\ no_such_paths[Len(no_such_paths)] = glob_paths[n_filtered]

\* C9, as claimed: once the tree is built main does not end with an
\* exception; when it has returned, it has returned 0, every resolved path
\* has gone through ls_filter and is in the not-found reports or in one
\* listing, and every report and every listing is in the output.
C9_Original ==
    /\ pc = "crashed" => internal_paths = <<>>
    /\ pc = "done"
       => /\ status = <<0>>
          /\ n_filtered = Len(glob_paths)
          /\ Len(no_such_paths) + Len(file_paths) + Len(dir_paths)
                 = Len(glob_paths)
          /\ \A k \in 1..Len(no_such_paths) :
                output[k] = [kind |-> "no such", path |-> no_such_paths[k]]
          /\ file_paths # <<>>
             => output[Len(no_such_paths) + 1]
                    = [kind |-> "ls", list |-> sorted(file_paths)]
          /\ \A k \in 1..Len(dir_paths) :
                \E i \in 1..Len(output) :
                   output[i] = [kind |-> "ls",
                                list |-> sorted(dir_paths[k][2])]

\* The reading of a segment pattern that C10 states, from the i-th character
\* of the pattern and the j-th of the segment on: "*" is any run of
\* characters other than "/", "?" one such character, "[" up to the next
\* "]" that is not right behind it one of the characters in between, and
\* any other character itself.
RECURSIVE glob_accepts_from(_, _, _, _)
glob_accepts_from(pattern, i, segment, j) ==
    LET closing == {k \in (i + 2)..Len(pattern) : Ch(pattern, k) = "]"}
        close == CHOOSE k \in closing : \A m \in closing : k <= m
    IN IF i > Len(pattern) THEN j > Len(segment)
       ELSE IF Ch(pattern, i) = "*"
       THEN \/ glob_accepts_from(pattern, i + 1, segment, j)
            \/ /\ j <= Len(segment)
               /\ Ch(segment, j) # "/"
               /\ glob_accepts_from(pattern, i, segment, j + 1)
       ELSE IF j > Len(segment) THEN FALSE
       ELSE IF Ch(pattern, i) = "?"
       THEN /\ Ch(segment, j) # "/"
            /\ glob_accepts_from(pattern, i + 1, segment, j + 1)
       ELSE IF Ch(pattern, i) = "[" /\ closing # {}
       THEN /\ \E k \in (i + 1)..(close - 1) :
                  Ch(pattern, k) = Ch(segment, j)
            /\ glob_accepts_from(pattern, close + 1, segment, j + 1)
       ELSE /\ Ch(pattern, i) = Ch(segment, j)
            /\ glob_accepts_from(pattern, i + 1, segment, j + 1)

glob_accepts(pattern, segment) ==
    glob_accepts_from(pattern, 1, segment, 1)

\* C10, as claimed: glob_to_re gives an expression for the pattern, and the
\* expression finds the candidate exactly when the whole candidate is the
\* pattern read with "*", "?" and bracket classes as wildcards and every
\* other character as itself.
C10_Original ==
    pc = "searched"
    => (glob_result = "match" <=> glob_accepts(glob_str, candidate))

\* The orders the n entries of a list can come in.
Orders(n) ==
    {f \in [1..n -> 1..n] : \A i, j \in 1..n : f[i] = f[j] => i = j}

\* What a tree built from `list` holds at each path of its index: the kind
\* of the node, the keys of its children and the file name of its entry.
TreeView(t, list) ==
    [path \in DOMAIN t.zipinfo_dict |->
        LET node == t.nodes[t.zipinfo_dict[path]]
        IN [children_none |-> node.children_none,
            names |-> child_names(node.children),
            entry |-> IF node.zipinfo = NoZipinfo THEN <<>>
                      ELSE <<list[node.zipinfo]>>]]

\* get_zipinfo has ended, by returning or by an exception.
BuildEnded == pc # "get_zipinfo"

\* C11, as claimed: when no two entries of the list normalize to the same
\* path, get_zipinfo on any permutation of the list ends as it ends on the
\* list and builds the same paths, with the same kind, the same children
\* keys and the same entry at each.
C11_Original ==
    ( /\ BuildEnded
      /\ \A i, j \in 1..Len(zipinfolist) :
            rstrip(zipinfolist[i], "/") = rstrip(zipinfolist[j], "/")
            => i = j )
    => \A f \in Orders(Len(zipinfolist)) :
          LET permuted == [i \in 1..Len(zipinfolist) |-> zipinfolist[f[i]]]
              other == get_zipinfo(permuted, Len(permuted), args.hide_macosx)
          IN /\ other.exc = exc
             /\ TreeView(other, permuted) = TreeView(Tree, zipinfolist)

\* The entries get_zipinfo has taken so far and not skipped.
TakenEntries ==
    {k \in 1..n_done :
        ~(args.hide_macosx /\ startswith(zipinfolist[k], "__MACOSX/"))}

\* C12, as claimed: a node at a path that no entry taken so far normalizes
\* to is a directory and carries a placeholder, not the ZipInfo of an entry
\* of the archive.
C12_Original ==
    \A path \in DOMAIN zipinfo_dict \ {""} :
        (\A k \in TakenEntries : rstrip(zipinfolist[k], "/") # path)
        => /\ ~NodeAt(path).children_none
           /\ NodeAt(path).zipinfo \notin 1..Len(zipinfolist)

\* The indices of the first n entries that do not start with "__MACOSX/",
\* in the order of the list.
RECURSIVE KeptEntries(_, _)
KeptEntries(list, n) ==
    IF n = 0 THEN <<>>
    ELSE IF startswith(list[n], "__MACOSX/") THEN KeptEntries(list, n - 1)
    ELSE Append(KeptEntries(list, n - 1), n)

\* C13: under --hide_macosx the tree is, after every entry, the tree that
\* get_zipinfo builds without the switch from the entries that do not start
\* with "__MACOSX/" (each node carrying the same entry), so only an entry
\* that is kept puts a node at "__MACOSX" or below; without the switch every
\* entry taken is in the index.
C13_HideMacosxSkipsPrefix ==
    LET kept == KeptEntries(zipinfolist, n_done)
        other == get_zipinfo([i \in 1..Len(kept) |-> zipinfolist[kept[i]]],
                             Len(kept), FALSE)
    IN /\ args.hide_macosx
          => /\ exc = other.exc
             /\ zipinfo_dict = other.zipinfo_dict
             /\ nodes = [i \in 1..Len(other.nodes) |->
                            [other.nodes[i] EXCEPT !.zipinfo =
                                IF @ = NoZipinfo THEN @ ELSE kept[@]]]
             /\ \A path \in DOMAIN zipinfo_dict :
                   (path = "__MACOSX" \/ startswith(path, "__MACOSX/"))
                   => \E i \in 1..Len(kept) :
                         startswith(zipinfolist[kept[i]], "__MACOSX")
       /\ (~args.hide_macosx /\ exc = "none")
          => \A k \in 1..n_done :
                rstrip(zipinfolist[k], "/") \in DOMAIN zipinfo_dict

\* Under --hide_macosx the entry __MACOSX/a was skipped, and the entries a
\* and __MACOSX were not.
C13_Witness ==
    /\ args.hide_macosx
    /\ zipinfolist = <<"__MACOSX/a", "a", "__MACOSX">>
    /\ n_done = 3
    /\ exc = "none"
    /\ DOMAIN zipinfo_dict = {"", "a", "__MACOSX"}
    /\ NodeAt("__MACOSX").zipinfo = 3

\* C14, as claimed: after every step of get_zipinfo the root is indexed
\* under "" and is a directory; every other indexed path has its parent
\* path indexed, as a directory whose children mapping holds under the leaf
\* name the node indexed at the path; and every child of an indexed
\* directory is the node indexed at the joined path.
C14_Original ==
    /\ "" \in DOMAIN zipinfo_dict
    /\ ~NodeAt("").children_none
    /\ \A path \in DOMAIN zipinfo_dict \ {""} :
          LET parent_name == rpartition(path)[1]
              leaf_name == rpartition(path)[3]
          IN /\ parent_name \in DOMAIN zipinfo_dict
             /\ ~NodeAt(parent_name).children_none
             /\ \E k \in 1..Len(NodeAt(parent_name).children) :
                   NodeAt(parent_name).children[k]
                       = [name |-> leaf_name, node |-> zipinfo_dict[path]]
    /\ \A path \in DOMAIN zipinfo_dict :
          \A k \in 1..Len(NodeAt(path).children) :
             LET child_path == path_join(<<path, NodeAt(path).children[k].name>>)
             IN /\ child_path \in DOMAIN zipinfo_dict
                /\ zipinfo_dict[child_path] = NodeAt(path).children[k].node

\* C15: once get_zipinfo has returned, the index and the nodes are, after
\* every call of glob_filter and of ls_filter, the ones get_zipinfo built:
\* no path is added or removed, and no node's children or entry changes,
\* whether the call returns matches, returns nothing or raises.
C15_TreeReadOnly ==
    internal_paths # <<>>
    => LET built == get_zipinfo(zipinfolist, Len(zipinfolist),
                                args.hide_macosx)
       IN /\ zipinfo_dict = built.zipinfo_dict
          /\ nodes = built.nodes

\* main has listed docs, and has found nothing for "d*/nope" and reported
\* it; the tree holds the three nodes of the archive.
C15_Witness ==
    /\ pc = "done"
    /\ internal_paths = <<"docs", "d*/nope">>
    /\ glob_paths = <<"docs", "d*/nope">>
    /\ no_such_paths = <<"d*/nope">>
    /\ Len(dir_paths) = 1
    /\ DOMAIN zipinfo_dict = {"", "docs", "docs/readme.txt", "docs/img"}

\* C16: glob_recurse finds nothing when the anchor of its path is not in
\* the tree, and nothing when the anchor is a file and a wildcard segment
\* follows it; and when only wildcard-free segments follow the wildcard
\* segment, the branch of a matched child is in the output exactly when its
\* path is in the tree, whatever the other branches found.
C16_FailedBranchYieldsNothing ==
    LET path_dirs == split(last_glob.pathspec)
        fg == first_glob(path_dirs)
        anchor == path_join(SubSeq(path_dirs, 1, fg))
        tail_dirs == SubSeq(path_dirs, fg + 2, Len(path_dirs))
        found == {last_glob.glob_paths[i] :
                     i \in 1..Len(last_glob.glob_paths)}
    IN last_glob.n > 0
       => /\ anchor \notin DOMAIN zipinfo_dict
             => (last_glob.glob_paths = <<>> /\ last_glob.exc = "none")
          /\ ( /\ anchor \in DOMAIN zipinfo_dict
               /\ NodeAt(anchor).children_none
               /\ fg < Len(path_dirs) )
             => (last_glob.glob_paths = <<>> /\ last_glob.exc = "none")
          /\ ( /\ anchor \in DOMAIN zipinfo_dict
               /\ ~NodeAt(anchor).children_none
               /\ fg < Len(path_dirs)
               /\ last_glob.exc = "none"
               /\ \A i \in 1..Len(tail_dirs) : ~has_glob(tail_dirs[i]) )
             => \A k \in 1..Len(NodeAt(anchor).children) :
                   LET mid_match == NodeAt(anchor).children[k].name
                       branch == path_join(<<anchor, mid_match>> \o tail_dirs)
                   IN ( /\ ~has_glob(mid_match)
                        /\ re_search(glob_to_re(path_dirs[fg + 1]),
                                     mid_match) )
                      => (branch \in found
                             <=> branch \in DOMAIN zipinfo_dict)

\* "other/*" on the file other found nothing, and "*/readme.txt" found
\* docs/readme.txt although the branches of dogs and other found nothing.
C16_Witness ==
    /\ zipinfolist = <<"docs/readme.txt", "dogs/", "other">>
    /\ internal_paths = <<"other/*", "*/readme.txt">>
    /\ last_glob.n = 2
    /\ NodeAt("other").children_none
    /\ "dogs/readme.txt" \notin DOMAIN zipinfo_dict
    /\ glob_paths = <<"other/*", "docs/readme.txt">>

\* C17, as claimed: when get_zipinfo takes a directory entry whose path the
\* index holds as a directory, the step raises nothing, the node at the path
\* is the same node with the new entry as its zipinfo, and nothing else
\* changes: not its children, not any other node, not the index.
C17_Original ==
    [][LET filename == zipinfolist[n_done + 1]
           this_filedir == rstrip(filename, "/")
       IN ( /\ pc = "get_zipinfo"
            /\ n_done < Len(zipinfolist)
            /\ ~(args.hide_macosx /\ startswith(filename, "__MACOSX/"))
            /\ is_dir(filename)
            /\ this_filedir \in DOMAIN zipinfo_dict
            /\ ~NodeAt(this_filedir).children_none )
          => /\ exc' = "none"
             /\ zipinfo_dict' = zipinfo_dict
             /\ nodes' = [nodes EXCEPT ![zipinfo_dict[this_filedir]].zipinfo =
                              n_done + 1]
      ]_vars

\* `shown` holds the pairs of `list`, each as often as there, in ascending
\* order of their names.
IsSortedListing(shown, list) ==
    /\ Len(shown) = Len(list)
    /\ \A i \in 1..(Len(shown) - 1) : ~str_lt(shown[i + 1][1], shown[i][1])
    /\ \A i \in 1..Len(list) :
          Cardinality({j \in 1..Len(shown) : shown[j] = list[i]})
              = Cardinality({j \in 1..Len(list) : list[j] = list[i]})

\* C18: nothing is printed before every resolved path has gone through
\* ls_filter; then come the not-found reports, in the order the paths were
\* resolved in, then the single-entry group, sorted, then one group for each
\* directory, in ascending order of the paths, each with a blank line and
\* its label before it when something was printed before it (the first
\* thing printed has no blank line, and a label only when there are several
\* directories).
C18_ReportsThenGroups ==
    LET n == Len(no_such_paths)
        f == IF file_paths = <<>> THEN 0 ELSE 1
        d == Len(dir_paths)
        first_len == IF n + f > 0 THEN 3 ELSE IF d > 1 THEN 2 ELSE 1
        group_len(k) == IF k = 1 THEN first_len ELSE 3
        group_end(k) == n + f + first_len + 3 * (k - 1)
        listing(k) == output[group_end(k)]
        label(k) == output[group_end(k) - 1]
        reports == [k \in 1..n |->
                       [kind |-> "no such", path |-> no_such_paths[k]]]
        shows(k, j) ==
            /\ IsSortedListing(listing(k).list, dir_paths[j][2])
            /\ group_len(k) >= 2 => label(k).path = dir_paths[j][1]
    IN /\ output # <<>>
          => (pc \in {"done", "crashed"} /\ n_filtered = Len(glob_paths))
       /\ no_such_paths
              = SelectSeq(SubSeq(glob_paths, 1, n_filtered),
                          LAMBDA x : x \notin DOMAIN zipinfo_dict)
       /\ (pc = "crashed" /\ output # <<>>) => output = reports
       /\ pc = "done"
          => /\ Len(output) = IF d = 0 THEN n + f ELSE group_end(d)
             /\ SubSeq(output, 1, n) = reports
             /\ f = 1
                => /\ output[n + 1].kind = "ls"
                   /\ IsSortedListing(output[n + 1].list, file_paths)
             /\ \A k \in 1..d :
                   /\ listing(k).kind = "ls"
                   /\ group_len(k) >= 2 => label(k).kind = "label"
                   /\ group_len(k) = 3
                      => output[group_end(k) - 2] = [kind |-> "blank"]
             /\ \A k \in 1..(d - 1) :
                   ~str_lt(label(k + 1).path, label(k).path)
             /\ \A j \in 1..d :
                   Cardinality({k \in 1..d : shows(k, j)})
                       = Cardinality({i \in 1..d :
                                         dir_paths[i] = dir_paths[j]})

\* main has reported "x*", listed the file other, and listed the
\* directories docs and dogs, in this order.
C18_Witness ==
    /\ pc = "done"
    /\ zipinfolist = <<"docs/", "dogs/", "other">>
    /\ internal_paths = <<"x*", "*">>
    /\ ~args.directory
    /\ output = << [kind |-> "no such", path |-> "x*"],
                   [kind |-> "ls", list |-> << <<"other", 3>> >>],
                   [kind |-> "blank"],
                   [kind |-> "label", path |-> "docs"],
                   [kind |-> "ls", list |-> <<>>],
                   [kind |-> "blank"],
                   [kind |-> "label", path |-> "dogs"],
                   [kind |-> "ls", list |-> <<>>] >>

\* The number of segments of a path that hold a wildcard.
WildcardSegments(path) ==
    Cardinality({i \in 1..Len(split(path)) : has_glob(split(path)[i])})

\* C19, as claimed: glob_recurse ends without running out of stack, and each
\* path it calls itself on has fewer wildcard segments than the path it was
\* called on.
C19_Original ==
    last_glob.n > 0
    => /\ last_glob.exc # "RecursionError"
       /\ LET path_dirs == split(last_glob.pathspec)
              fg == first_glob(path_dirs)
              parent == path_join(SubSeq(path_dirs, 1, fg))
              tail == path_join(SubSeq(path_dirs, fg + 2, Len(path_dirs)))
          IN ( /\ fg < Len(path_dirs)
               /\ parent \in DOMAIN zipinfo_dict
               /\ ~NodeAt(parent).children_none
               /\ ~glob_to_re(path_dirs[fg + 1]).error )
             => \A k \in 1..Len(NodeAt(parent).children) :
                   LET mid_match == NodeAt(parent).children[k].name
                   IN re_search(glob_to_re(path_dirs[fg + 1]), mid_match)
                      => WildcardSegments(path_join(<<parent, mid_match,
                                                      tail>>))
                             < WildcardSegments(last_glob.pathspec)

\* C20, as claimed: get_zipinfo raises nothing, whatever the entries and
\* their order (every entry name of the archives here is non-empty, has no
\* empty segment and no leading slash).
C20_Original ==
    (pc = "crashed" /\ internal_paths = <<>>) => exc = "none"

\* C21, as claimed: the step of main that takes a resolved path of the tree
\* through ls_filter adds it to the single-entry group exactly when its node
\* is a file or the -d switch is set; a directory without the switch is
\* added to the directory groups, with its visible children, and not to the
\* single-entry group.
C21_Original ==
    [][LET pathspec == glob_paths[n_filtered + 1]
           single == NodeAt(pathspec).children_none \/ args.directory
           shown == Visible(NodeAt(pathspec))
       IN ( /\ pc = "ls_filter"
            /\ n_filtered < Len(glob_paths)
            /\ pathspec \in DOMAIN zipinfo_dict )
          => /\ single
                => /\ file_paths'
                          = Append(file_paths,
                                   <<pathspec, NodeAt(pathspec).zipinfo>>)
                   /\ dir_paths' = dir_paths
             /\ ~single
                => /\ file_paths' = file_paths
                   /\ dir_paths'
                          = Append(dir_paths,
                                   <<pathspec,
                                     [k \in 1..Len(shown) |->
                                         <<shown[k].name,
                                           nodes[shown[k].node].zipinfo>>]>>)
      ]_vars

====
